---------------------------- MODULE Spec2Model ----------------------------
(***************************************************************************)
(* Model of the LTP runner of LISA:                                        *)
(*   src/microsoft/testsuites/ltp/ltp.py       Ltp.run_test, _parse_results *)
(*   src/microsoft/testsuites/ltp/ltpsuite.py  LtpTestsuite.ltp_lite        *)
(*                                                                         *)
(* Strings are sequences of tokens.  In an argument string the blank is an *)
(* explicit token " "; in a log text the tokens of one line are separated  *)
(* by blanks and the line break is the explicit token "\n".                *)
(***************************************************************************)
EXTENDS Naturals, Sequences, FiniteSets

VARIABLES
    pc,             \* position in run_test / ltp_lite
    caller,         \* "ltp_lite" or "direct" (who called run_test)
    lisa_test_name, \* run_test argument
    ltp_tests,      \* run_test argument
    skip_tests,     \* run_test argument
    drive_name,     \* run_test argument, NoDrive when absent
    files,          \* the remote files: path -> [present, data]
    parameters,     \* local of run_test
    ops,            \* remote operations issued by the current call, in order
    result_file,    \* local of _parse_results: the text read back
    raised,         \* exception raised by the current call, "none" if none
    results,        \* records returned by run_test
    idx,            \* loop position of ltp_lite over results
    failed_tests,   \* local of ltp_lite
    notified,       \* messages received by the notification sink, in order
    clean_node      \* history: none of the three fixed files was there at first

vars == << pc, caller, lisa_test_name, ltp_tests, skip_tests, drive_name,
           files, parameters, ops, result_file, raised, results,
           idx, failed_tests, notified, clean_node >>

----------------------------------------------------------------------------
(* Bounds of the model *)

\* longest skip list
MaxList == 2
\* most lines of a log text
MaxLines == 4

SeqUpTo(S, n) == UNION { [1..k -> S] : k \in 0..n }

Min(S) == CHOOSE x \in S : \A y \in S : x <= y

Max(S) == CHOOSE x \in S : \A y \in S : x >= y

----------------------------------------------------------------------------
(* Program constants *)

LTP_TESTS_GIT_TAG == "20190930"

LTP_RESULT_PATH == "/opt/ltp/ltp-results.log"

LTP_OUTPUT_PATH == "/opt/ltp/ltp-output.log"

LTP_SKIP_FILE == "/opt/ltp/skipfile"

LTP_LITE_TESTS == << "math", "fsx", "ipc", "mm", "sched", "pty", "fs" >>

NoDrive == ""

----------------------------------------------------------------------------
(* str.join and str.split on token strings.  The empty string "" is an     *)
(* element that contributes no token.                                      *)

Tok(e) == IF e = "" THEN << >> ELSE << e >>

RECURSIVE Join(_, _)
Join(list, sep) ==
    IF list = << >> THEN << >>
    ELSE IF Len(list) = 1 THEN Tok(list[1])
    ELSE Tok(list[1]) \o << sep >> \o Join(Tail(list), sep)

\* s.split(","): the elements between the commas, "" where two commas meet
\* or the string starts or ends with one.
RECURSIVE Split(_)
Split(s) ==
    LET commas == { i \in 1..Len(s) : s[i] = "," }
    IN  IF commas = {}
        THEN << (IF s = << >> THEN "" ELSE s[1]) >>
        ELSE LET c == Min(commas)
             IN  << (IF c = 1 THEN "" ELSE s[1]) >>
                 \o Split(SubSeq(s, c + 1, Len(s)))

----------------------------------------------------------------------------
(* Log texts *)

NL == "\n"

StatusCodes == { "PASS", "CONF", "FAIL" }

\* tokens that \d+ matches
Numbers == { "0", "1", "2", "3" }

ArchLine == << "Machine", "Architecture:", "x86_64" >>

ResultLines ==
    { << "abs01", "PASS", "0" >>,
      << "abs02", "FAIL", "1" >>,
      << "abs03", "CONF", "0" >> }

WarnLine == << "abs04", "WARN", "0" >>

TotalLine == << "Total", "Failures:", "1" >>

\* a line that starts with a status code
BareLine == << "PASS", "0" >>

LogLines == { ArchLine, WarnLine, TotalLine, BareLine } \cup ResultLines

\* the text of the lines, joined by line breaks, with or without a final one
RECURSIVE JoinLines(_)
JoinLines(lines) ==
    IF lines = << >> THEN << >>
    ELSE IF Len(lines) = 1 THEN lines[1]
    ELSE lines[1] \o << NL >> \o JoinLines(Tail(lines))

Text(lines, nl) == JoinLines(lines) \o (IF nl THEN << NL >> ELSE << >>)

Texts == { Text(ls, nl) : ls \in SeqUpTo(LogLines, MaxLines), nl \in BOOLEAN }

----------------------------------------------------------------------------
(* The two regular expressions, on token strings.  "." does not match a    *)
(* line break, "\s" does; every token but the first of the text has        *)
(* white space before it.                                                  *)

\* first line break at or after p, Len(s)+1 if none
LineEnd(s, p) ==
    LET nls == { e \in p..Len(s) : s[e] = NL }
    IN  IF nls = {} THEN Len(s) + 1 ELSE Min(nls)

\* first token at or after k that is no line break, 0 if none
NextTok(s, k) ==
    LET ts == { j \in k..Len(s) : s[j] # NL }
    IN  IF ts = {} THEN 0 ELSE Min(ts)

\* \s+(PASS|CONF|FAIL)\s+(\d+) matches with the status code at i
StatusAt(s, i) ==
    /\ i > 1
    /\ s[i] \in StatusCodes
    /\ LET j == NextTok(s, i + 1) IN j # 0 /\ s[j] \in Numbers

\* _RESULT_TESTCASE_REGEX.findall from token p on: (.*) is greedy, so of the
\* status codes that can follow it the last one is taken; the name is what
\* (.*) holds of the line, stripped.
RECURSIVE FindTestcases(_, _)
FindTestcases(s, p) ==
    IF p > Len(s) THEN << >>
    ELSE
      LET e == LineEnd(s, p)
          f == IF e <= Len(s) THEN NextTok(s, e) ELSE 0
          c == { i \in p..(e - 1) : StatusAt(s, i) }
               \cup (IF f # 0 /\ StatusAt(s, f) THEN { f } ELSE {})
      IN  IF c = {}
          THEN FindTestcases(s, e + 1)
          ELSE LET i == Max(c)
                   j == NextTok(s, i + 1)
                   last == IF i < e THEN i - 1 ELSE e - 1
               IN  << << SubSeq(s, p, last), s[i], s[j] >> >>
                   \o FindTestcases(s, j + 1)

RESULT_TESTCASE_REGEX(s) == FindTestcases(s, 1)

\* _RESULT_LTP_ARCH_REGEX.findall from token p on: the value needs white
\* space after it, the line break or, on a last line without one, the blank
\* before the value's last token.
RECURSIVE FindArch(_, _)
FindArch(s, p) ==
    IF p > Len(s) THEN << >>
    ELSE
      LET e == LineEnd(s, p)
          ok(i) == /\ s[i] = "Machine" /\ s[i + 1] = "Architecture:"
                   /\ IF e <= Len(s) THEN e - 1 - (i + 1) >= 1
                                     ELSE e - 1 - (i + 1) >= 2
          hits == { i \in p..(e - 2) : ok(i) }
      IN  IF hits = {}
          THEN FindArch(s, e + 1)
          ELSE LET i == Min(hits)
               IN  IF e <= Len(s)
                   THEN << SubSeq(s, i + 2, e - 1) >>
                        \o (IF NextTok(s, e) = 0 THEN << >>
                            ELSE FindArch(s, NextTok(s, e)))
                   ELSE << SubSeq(s, i + 2, e - 2) >>

RESULT_LTP_ARCH_REGEX(s) == FindArch(s, 1)

\* lisa.util.find_patterns_in_lines: each pattern matched on its own against
\* the whole text
find_patterns_in_lines(s) == << RESULT_LTP_ARCH_REGEX(s), RESULT_TESTCASE_REGEX(s) >>

----------------------------------------------------------------------------
(* Ltp._parse_results *)

parse_status_to_test_status(status) ==
    IF status = "PASS" THEN "PASSED"
    ELSE IF status = "FAIL" THEN "FAILED"
    ELSE IF status = "CONF" THEN "SKIPPED"
    ELSE "LisaException"

LtpResult(version, architecture, name, status, exit_value) ==
    [ version |-> version, architecture |-> architecture, name |-> name,
      status |-> status, exit_value |-> exit_value ]

\* records with the default architecture when the log has no architecture
\* line, in place of the failing index
parse_results_default_architecture(text) ==
    LET matched == find_patterns_in_lines(text)
        architecture == IF matched[1] = << >> THEN << >> ELSE matched[1][1]
    IN  [ raised |-> "none",
          results |-> [ k \in 1..Len(matched[2]) |->
                          LtpResult(LTP_TESTS_GIT_TAG, architecture,
                                    matched[2][k][1],
                                    parse_status_to_test_status(matched[2][k][2]),
                                    matched[2][k][3]) ] ]

\* what _parse_results does with the text read: the exception it raises
\* ("none" if none) and the records it returns
parse_results(text) ==
    LET matched == find_patterns_in_lines(text)
    IN  IF matched[1] = << >>
        THEN [ raised |-> "IndexError", results |-> << >> ]
        ELSE LET architecture == matched[1][1]
                 status(k) == parse_status_to_test_status(matched[2][k][2])
             IN  IF \E k \in 1..Len(matched[2]) : status(k) = "LisaException"
                 THEN [ raised |-> "LisaException", results |-> << >> ]
                 ELSE [ raised |-> "none",
                        results |-> [ k \in 1..Len(matched[2]) |->
                                        LtpResult(LTP_TESTS_GIT_TAG, architecture,
                                                  matched[2][k][1], status(k),
                                                  matched[2][k][3]) ] ]

----------------------------------------------------------------------------
(* The remote node: the fixed files and the tools that act on them.        *)

Paths == { LTP_SKIP_FILE, LTP_RESULT_PATH, LTP_OUTPUT_PATH, "ltp-lite" }

Absent == [ present |-> FALSE, data |-> << >> ]

File(data) == [ present |-> TRUE, data |-> data ]

\* Ls.path_exists
path_exists(fs, path) == fs[path].present

\* Rm.remove_file
remove_file(fs, path) == [ fs EXCEPT ![path] = Absent ]

\* Echo.write_to_file
write_to_file(fs, value, path) == [ fs EXCEPT ![path] = File(value) ]

\* one remote operation, as the node sees it; found is the answer of a probe,
\* args the argument string of the binary
Op(op, path, sudo, force_run) ==
    [ op |-> op, path |-> path, sudo |-> sudo, force_run |-> force_run,
      found |-> FALSE, args |-> << >> ]

Probe(path, sudo, found) ==
    [ op |-> "ls", path |-> path, sudo |-> sudo, force_run |-> FALSE,
      found |-> found, args |-> << >> ]

\* Ltp.command
command == "/opt/ltp/runltp"

\* Tool.run of the binary
Run(args, sudo, force_run) ==
    [ op |-> "runltp", path |-> command, sudo |-> sudo, force_run |-> force_run,
      found |-> FALSE, args |-> args ]

\* the argument of a flag of the argument string, "" when the flag is absent
FlagArg(params, flag) ==
    LET at == { i \in 1..(Len(params) - 2) : params[i] = flag /\ params[i + 1] = " " }
    IN  IF at = {} THEN "" ELSE params[Min(at) + 2]

\* the test binary: writes its per-test log to the -l path and its output to
\* the -o path, when it is given them
runltp(fs, params, log) ==
    LET l == FlagArg(params, "-l")
        o == FlagArg(params, "-o")
        fs1 == IF l \in Paths THEN write_to_file(fs, log, l) ELSE fs
    IN  IF o \in Paths THEN write_to_file(fs1, << "output" >>, o) ELSE fs1

\* logs the binary may write: a complete one, and one cut short before the
\* architecture line
FailingLog ==
    Text(<< << "abs01", "PASS", "0" >>, << "abs02", "FAIL", "1" >>, ArchLine >>, TRUE)

CutLog == Text(<< << "abs03", "CONF", "0" >> >>, TRUE)

LogSamples == { FailingLog, CutLog }

----------------------------------------------------------------------------
(* Ltp.run_test *)

SkipNames == { "abs01", "abs02" }

Drives == { NoDrive, "/dev/sdc" }

\* lines 101-109: the argument string before the skip file is added
test_parameters(tests, drive) ==
    LET logging == << "-p", " ", "-q", " ", "-l", " ", LTP_RESULT_PATH, " ",
                      "-o", " ", LTP_OUTPUT_PATH, " " >>
        with_tests == logging \o << "-f", " " >> \o Join(tests, ",") \o << " " >>
    IN  IF drive # NoDrive THEN << "-z", " ", drive, " " >> ELSE with_tests

\* line 114, with a separator after the last element too
skip_file_value_trailing(skip) == Join(skip, NL) \o << NL >>

\* line 114
skip_file_value(skip) == Join(skip, NL)

Ended == pc \in { "returned", "raised", "passed", "failed" }

\* the test lists tried: none, one test, two in an order that is not the
\* alphabetical one, the same test twice
TestLists ==
    { << >>, << "math" >>, << "math", "fsx" >>, << "fsx", "fsx" >> }

SkipLists == SeqUpTo(SkipNames, MaxList)

\* line 82 left out: the call goes on with whatever list it was given
EnterUnchecked(who, name, tests, skip, drive) ==
    /\ pc = "idle"
    /\ pc' = "rm_skipfile"
    /\ caller' = who
    /\ lisa_test_name' = name
    /\ ltp_tests' = tests
    /\ skip_tests' = skip
    /\ drive_name' = drive
    /\ UNCHANGED << files, parameters, ops, result_file, raised, results, idx,
                    failed_tests, notified, clean_node >>

\* a call starts: the arguments are bound, the locals are fresh, and line 82
\* turns an empty test list away
Enter(who, name, tests, skip, drive) ==
    /\ pc = "idle"
    /\ caller' = who
    /\ lisa_test_name' = name
    /\ ltp_tests' = tests
    /\ skip_tests' = skip
    /\ drive_name' = drive
    /\ IF tests = << >>
       THEN pc' = "raised" /\ raised' = "AssertionError"
       ELSE pc' = "rm_skipfile" /\ UNCHANGED raised
    /\ UNCHANGED << files, parameters, ops, result_file, results, idx,
                    failed_tests, notified, clean_node >>

\* a direct call of run_test
run_test ==
    \E name \in { "ltp-lite", LTP_RESULT_PATH }, tests \in TestLists,
       skip \in SkipLists, drive \in Drives :
        Enter("direct", name, tests, skip, drive)

\* "remove ... if it exists": probe, then remove only what was found
RemoveIfExists(at, next, path, sudo) ==
    /\ pc = at
    /\ pc' = next
    /\ IF path_exists(files, path)
       THEN /\ files' = remove_file(files, path)
            /\ ops' = ops \o << Probe(path, sudo, TRUE), Op("rm", path, TRUE, FALSE) >>
       ELSE /\ files' = files
            /\ ops' = Append(ops, Probe(path, sudo, FALSE))
    /\ UNCHANGED << caller, lisa_test_name, ltp_tests, skip_tests, drive_name,
                    parameters, result_file, raised, results, idx,
                    failed_tests, notified, clean_node >>

\* lines 86-89
remove_skipfile == RemoveIfExists("rm_skipfile", "rm_results", LTP_SKIP_FILE, FALSE)

\* lines 91-94 with the removal left out
remove_results_kept ==
    /\ pc = "rm_results"
    /\ pc' = "rm_output"
    /\ ops' = Append(ops, Probe(LTP_RESULT_PATH, TRUE,
                                path_exists(files, LTP_RESULT_PATH)))
    /\ UNCHANGED << caller, lisa_test_name, ltp_tests, skip_tests, drive_name,
                    files, parameters, result_file, raised, results,
                    idx, failed_tests, notified, clean_node >>

\* lines 91-94
remove_results == RemoveIfExists("rm_results", "rm_output", LTP_RESULT_PATH, TRUE)

\* lines 96-99
remove_output == RemoveIfExists("rm_output", "parameters", LTP_OUTPUT_PATH, TRUE)

\* lines 101-109
build_parameters ==
    /\ pc = "parameters"
    /\ pc' = "skipfile"
    /\ parameters' = test_parameters(ltp_tests, drive_name)
    /\ UNCHANGED << caller, lisa_test_name, ltp_tests, skip_tests, drive_name,
                    files, ops, result_file, raised, results, idx,
                    failed_tests, notified, clean_node >>

\* lines 111-118
write_skipfile ==
    /\ pc = "skipfile"
    /\ pc' = "run"
    /\ IF Len(skip_tests) > 0
       THEN /\ files' = write_to_file(files, skip_file_value(skip_tests), LTP_SKIP_FILE)
            /\ ops' = Append(ops, Op("echo", LTP_SKIP_FILE, TRUE, FALSE))
            /\ parameters' = parameters \o << "-S", " ", LTP_SKIP_FILE, " " >>
       ELSE UNCHANGED << files, ops, parameters >>
    /\ UNCHANGED << caller, lisa_test_name, ltp_tests, skip_tests, drive_name,
                    result_file, raised, results, idx, failed_tests,
                    notified, clean_node >>

\* line 121: the binary runs to its end
run_ltp ==
    /\ pc = "run"
    /\ pc' = "read"
    /\ ops' = Append(ops, Run(parameters, TRUE, TRUE))
    /\ \E log \in LogSamples : files' = runltp(files, parameters, log)
    /\ UNCHANGED << caller, lisa_test_name, ltp_tests, skip_tests, drive_name,
                    parameters, result_file, raised, results, idx,
                    failed_tests, notified, clean_node >>

\* line 121: the binary does not end within the timeout; it may or may not
\* have written its logs
run_ltp_timeout ==
    /\ pc = "run"
    /\ pc' = "raised"
    /\ raised' = "ExecutionFailure"
    /\ ops' = Append(ops, Run(parameters, TRUE, TRUE))
    /\ \E log \in LogSamples : files' \in { files, runltp(files, parameters, log) }
    /\ UNCHANGED << caller, lisa_test_name, ltp_tests, skip_tests, drive_name,
                    parameters, result_file, results, idx,
                    failed_tests, notified, clean_node >>

\* lines 124 and 293: the file named by the argument of _parse_results is read
read_results ==
    /\ pc = "read"
    /\ ops' = Append(ops, Op("cat", lisa_test_name, TRUE, TRUE))
    /\ IF path_exists(files, lisa_test_name)
       THEN /\ result_file' = files[lisa_test_name].data
            /\ pc' = "parse"
            /\ UNCHANGED raised
       ELSE /\ raised' = "ExecutionFailure"
            /\ pc' = "raised"
            /\ UNCHANGED result_file
    /\ UNCHANGED << caller, lisa_test_name, ltp_tests, skip_tests, drive_name,
                    files, parameters, results, idx, failed_tests,
                    notified, clean_node >>

\* lines 294-315 and 126: the text is parsed and the records are returned
\* to the caller
parse_and_return ==
    /\ pc = "parse"
    /\ LET r == parse_results(result_file)
       IN  /\ raised' = r.raised
           /\ results' = r.results
           /\ pc' = IF r.raised # "none" THEN "raised"
                    ELSE IF caller = "ltp_lite" THEN "for_result"
                    ELSE "returned"
    /\ UNCHANGED << caller, lisa_test_name, ltp_tests, skip_tests, drive_name,
                    files, parameters, ops, result_file, idx,
                    failed_tests, notified, clean_node >>

----------------------------------------------------------------------------
(* LtpTestsuite.ltp_lite *)

SUITE_NAME == "LtpTestsuite"

\* values of the ltp_test and ltp_skip_test variables: comma separated lists
VarStrings(names) == { Join(l, ",") : l \in SeqUpTo(names \cup { "" }, MaxList) }

\* the ltp_test values tried: unset, one test, two tests, a trailing comma
TestVars ==
    { << >>, << "math" >>, << "math", ",", "fsx" >>, << "math", "," >> }

SkipVars == VarStrings({ "abs01" })

\* lines 52-72
ltp_lite ==
    \E tests \in TestVars, skip_tests_var \in SkipVars :
        Enter("ltp_lite", "ltp-lite",
              IF tests # << >> THEN Split(tests) ELSE LTP_LITE_TESTS,
              IF skip_tests_var # << >> THEN Split(skip_tests_var) ELSE << >>,
              "/dev/sdc")

\* lines 77-78, counting every record that did not pass
failed_tests_not_passed(failed, result) ==
    IF result.status # "PASSED" THEN Append(failed, result.name) ELSE failed

\* lines 77-78
failed_tests_append(failed, result) ==
    IF result.status = "FAILED" THEN Append(failed, result.name) ELSE failed

\* lines 81-87, with the version where the architecture belongs
community_message_swapped(result) ==
    [ name |-> result.name, suite_name |-> SUITE_NAME, status |-> result.status,
      information |-> [ architecture |-> << result.version >>,
                        version |-> result.version,
                        exit_value |-> result.exit_value ] ]

\* lines 81-87
community_message(result) ==
    [ name |-> result.name, suite_name |-> SUITE_NAME, status |-> result.status,
      information |-> [ architecture |-> result.architecture,
                        version |-> result.version,
                        exit_value |-> result.exit_value ] ]

\* lines 76-90: one pass of the loop
for_result ==
    /\ pc = "for_result"
    /\ idx <= Len(results)
    /\ failed_tests' = failed_tests_append(failed_tests, results[idx])
    /\ notified' = Append(notified, community_message(results[idx]))
    /\ idx' = idx + 1
    /\ UNCHANGED << pc, caller, lisa_test_name, ltp_tests, skip_tests, drive_name,
                    files, parameters, ops, result_file, raised, results,
                    clean_node >>

\* lines 92-94
assert_failed_tests_empty ==
    /\ pc = "for_result"
    /\ idx > Len(results)
    /\ IF failed_tests = << >>
       THEN pc' = "passed" /\ UNCHANGED raised
       ELSE pc' = "failed" /\ raised' = "AssertionError"
    /\ UNCHANGED << caller, lisa_test_name, ltp_tests, skip_tests, drive_name,
                    files, parameters, ops, result_file, results, idx,
                    failed_tests, notified, clean_node >>

\* the call has ended and its frame is gone; the files stay
finish ==
    /\ Ended
    /\ pc' = "idle"
    /\ caller' = "direct"
    /\ lisa_test_name' = "ltp-lite"
    /\ ltp_tests' = << >>
    /\ skip_tests' = << >>
    /\ drive_name' = NoDrive
    /\ parameters' = << >>
    /\ ops' = << >>
    /\ result_file' = << >>
    /\ raised' = "none"
    /\ results' = << >>
    /\ idx' = 1
    /\ failed_tests' = << >>
    /\ notified' = << >>
    /\ UNCHANGED << files, clean_node >>

----------------------------------------------------------------------------
(* Specifications *)

\* the fixed files a node may hold before a call
Nodes ==
    { fs \in [ Paths -> { Absent } \cup { File(t) : t \in LogSamples }
                         \cup { File(skip_file_value(l)) : l \in SkipLists \ { << >> } }
                         \cup { File(<< "output" >>) } ] :
        /\ fs[LTP_SKIP_FILE] \in { Absent, File(<< "abs01" >>) }
        /\ fs[LTP_RESULT_PATH] \in { Absent } \cup { File(t) : t \in LogSamples }
        /\ fs[LTP_OUTPUT_PATH] \in { Absent, File(<< "output" >>) }
        /\ fs["ltp-lite"] \in { Absent, File(FailingLog) } }

\* the node before the first call: any of the fixed files may be there
Init ==
    /\ pc = "idle"
    /\ caller = "direct"
    /\ lisa_test_name = "ltp-lite"
    /\ ltp_tests = << >>
    /\ skip_tests = << >>
    /\ drive_name = NoDrive
    /\ files \in Nodes
    /\ clean_node = (\A p \in Paths \ { "ltp-lite" } : ~ files[p].present)
    /\ parameters = << >>
    /\ ops = << >>
    /\ result_file = << >>
    /\ raised = "none"
    /\ results = << >>
    /\ idx = 1
    /\ failed_tests = << >>
    /\ notified = << >>

Next ==
    \/ run_test
    \/ ltp_lite
    \/ remove_skipfile
    \/ remove_results
    \/ remove_output
    \/ build_parameters
    \/ write_skipfile
    \/ run_ltp
    \/ run_ltp_timeout
    \/ read_results
    \/ parse_and_return
    \/ for_result
    \/ assert_failed_tests_empty
    \/ finish

Spec == Init /\ [][Next]_vars

\* _parse_results and the loop of ltp_lite on every log text: ltp_lite, called
\* with no variables set, has run the binary and read the text
InitParse ==
    /\ pc = "parse"
    /\ caller = "ltp_lite"
    /\ lisa_test_name = "ltp-lite"
    /\ ltp_tests = LTP_LITE_TESTS
    /\ skip_tests = << >>
    /\ drive_name = "/dev/sdc"
    /\ result_file \in Texts
    /\ files = [ p \in Paths |-> IF p = "ltp-lite" THEN File(result_file) ELSE Absent ]
    /\ clean_node = TRUE
    /\ parameters = test_parameters(ltp_tests, drive_name)
    /\ ops = << Probe(LTP_SKIP_FILE, FALSE, FALSE),
                Probe(LTP_RESULT_PATH, TRUE, FALSE),
                Probe(LTP_OUTPUT_PATH, TRUE, FALSE),
                Run(parameters, TRUE, TRUE),
                Op("cat", lisa_test_name, TRUE, TRUE) >>
    /\ raised = "none"
    /\ results = << >>
    /\ idx = 1
    /\ failed_tests = << >>
    /\ notified = << >>

NextParse ==
    \/ parse_and_return
    \/ for_result
    \/ assert_failed_tests_empty

SpecParse == InitParse /\ [][NextParse]_vars

----------------------------------------------------------------------------
(* Properties *)

\* how often the token string sub occurs in s
Occurrences(s, sub) ==
    Cardinality({ i \in 1..(Len(s) + 1 - Len(sub)) :
                    SubSeq(s, i, i + Len(sub) - 1) = sub })

Tokens(s) == { s[i] : i \in 1..Len(s) }

\* the lines of a text
RECURSIVE LinesOf(_)
LinesOf(s) ==
    IF s = << >> THEN << >>
    ELSE LET e == LineEnd(s, 1)
         IN  << SubSeq(s, 1, e - 1) >>
             \o (IF e >= Len(s) THEN << >> ELSE LinesOf(SubSeq(s, e + 1, Len(s))))

IsArchLine(l) == Len(l) >= 2 /\ l[1] = "Machine" /\ l[2] = "Architecture:"

IsResultLine(l) ==
    Len(l) = 3 /\ l[1] \notin StatusCodes /\ l[2] \in StatusCodes /\ l[3] \in Numbers

IsUnknownStatusLine(l) == Len(l) = 3 /\ l[2] = "WARN" /\ l[3] \in Numbers

ArchLinesOf(s) == SelectSeq(LinesOf(s), IsArchLine)

ResultLinesOf(s) == SelectSeq(LinesOf(s), IsResultLine)

\* a log of one architecture line and test-result lines, nothing else
ArchAndResultsOnly(s) ==
    /\ Len(ArchLinesOf(s)) = 1
    /\ Len(ArchLinesOf(s)) + Len(ResultLinesOf(s)) = Len(LinesOf(s))

StatusOf(code) ==
    CASE code = "PASS" -> "PASSED"
      [] code = "FAIL" -> "FAILED"
      [] code = "CONF" -> "SKIPPED"

\* one record per test-result line, in the order of the lines
RecordsOfLines(s) ==
    LET rl == ResultLinesOf(s)
        arch == Tail(Tail(ArchLinesOf(s)[1]))
    IN  [ k \in 1..Len(rl) |->
            [ version |-> "20190930", architecture |-> arch,
              name |-> << rl[k][1] >>, status |-> StatusOf(rl[k][2]),
              exit_value |-> rl[k][3] ] ]

IsFailed(r) == r.status = "FAILED"

Names(rs) == [ k \in 1..Len(rs) |-> rs[k].name ]

\* C1: whenever the binary is about to be run on a non-empty test list, the
\* argument string holds the test list joined by commas exactly once, whatever
\* the skip list and whether or not a drive name was given.
C1_TestListPassedOnce ==
    (pc = "run" /\ ltp_tests # << >>)
        => Occurrences(parameters, Join(ltp_tests, ",")) = 1

\* C2: the file read back after the binary has run is the fixed result log,
\* the path given to the binary as its per-test log, and the read is forced
\* and elevated.
C2_ReadsResultLog ==
    \A i \in 1..Len(ops) :
        ops[i].op = "cat"
            => /\ ops[i].path = LTP_RESULT_PATH
               /\ ops[i].path = FlagArg(parameters, "-l")
               /\ ops[i].force_run
               /\ ops[i].sudo

\* C3: a log of one architecture line and any number of test-result lines
\* parses to one record per test-result line, in the order of the lines, each
\* with the line's name, mapped status and exit value, the pinned version and
\* the one architecture.
C3_OneRecordPerLine ==
    (pc # "parse" /\ ArchAndResultsOnly(result_file))
        => /\ pc # "raised"
           /\ results = RecordsOfLines(result_file)

\* C4: parsing a log with a result line of an unknown status code (WARN)
\* raises the parse error that names the code and returns no records.  Stated
\* for logs whose architecture line is found, so that nothing else is wrong
\* with the log.
C4_UnknownStatusRaises ==
    (/\ pc # "parse"
     /\ RESULT_LTP_ARCH_REGEX(result_file) # << >>
     /\ \E k \in 1..Len(LinesOf(result_file)) :
            IsUnknownStatusLine(LinesOf(result_file)[k]))
        => /\ pc = "raised"
           /\ raised = "LisaException"
           /\ results = << >>

\* C5: when the binary is about to be run, a non-empty skip list has been
\* written to the skip file joined by line breaks, with none after the last
\* element, and the argument string refers to the skip file once; an empty
\* skip list has written nothing and the argument string has no skip-file
\* flag.  With or without a drive name.
C5_SkipFile ==
    pc = "run"
        => LET writes == { i \in 1..Len(ops) : ops[i].op = "echo" }
           IN  IF skip_tests # << >>
               THEN /\ files[LTP_SKIP_FILE] = File(Join(skip_tests, NL))
                    /\ Cardinality(writes) = 1
                    /\ \A i \in writes : ops[i].path = LTP_SKIP_FILE
                    /\ Occurrences(parameters, << "-S", " ", LTP_SKIP_FILE, " " >>) = 1
                    /\ Occurrences(parameters, << "-S" >>) = 1
               ELSE /\ writes = {}
                    /\ "-S" \notin Tokens(parameters)
                    /\ LTP_SKIP_FILE \notin Tokens(parameters)

C5_Witness ==
    /\ pc = "run"
    /\ drive_name # NoDrive
    /\ Len(skip_tests) = 2
    /\ skip_tests[1] # skip_tests[2]
    /\ files[LTP_SKIP_FILE].data = << skip_tests[1], NL, skip_tests[2] >>

\* C6: ltp_lite fails exactly when a record is FAILED, and the names it
\* reports are those of the FAILED records, in their order and as often as
\* they occur.
C6_FailsIffFailed ==
    pc \in { "passed", "failed" }
        => /\ (pc = "failed") <=> (\E k \in 1..Len(results) : results[k].status = "FAILED")
           /\ failed_tests = Names(SelectSeq(results, IsFailed))
           /\ (pc = "failed") <=> (raised = "AssertionError")

C6_Witness ==
    /\ pc = "failed"
    /\ Len(results) = 3
    /\ results[1].status = "FAILED"
    /\ results[2].status = "SKIPPED"
    /\ results[3] = results[1]
    /\ failed_tests = << results[1].name, results[1].name >>

\* C7: a call with an empty test list does nothing but fail with the
\* assertion error: the step that starts it issues no remote operation and
\* leaves the files as they were, and no other step of the call follows.
C7_EmptyListFailsFirst ==
    [][(ltp_tests' = << >> /\ pc' # "idle")
          => /\ pc = "idle"
             /\ pc' = "raised"
             /\ raised' = "AssertionError"
             /\ ops' = << >>
             /\ files' = files]_vars

C7_Witness ==
    /\ pc = "raised"
    /\ raised = "AssertionError"
    /\ ltp_tests = << >>
    /\ ops = << >>
    /\ files[LTP_SKIP_FILE].present
    /\ files[LTP_RESULT_PATH].present

\* C8: parsing a log without an architecture line fails (the index error of
\* line 301) and returns no records, result lines or not; no record ever has
\* an empty architecture.
C8_NoArchitectureFails ==
    /\ (pc # "parse" /\ ArchLinesOf(result_file) = << >>)
          => /\ pc = "raised"
             /\ raised = "IndexError"
             /\ results = << >>
             /\ notified = << >>
    /\ \A k \in 1..Len(results) : results[k].architecture # << >>

C8_Witness ==
    /\ pc = "raised"
    /\ raised = "IndexError"
    /\ ArchLinesOf(result_file) = << >>
    /\ Len(ResultLinesOf(result_file)) = 2
    /\ RESULT_TESTCASE_REGEX(result_file) # << >>

\* C9: the sink has received one message per record handled so far, in the
\* order of the records, each with the record's name, status, architecture,
\* version and exit value; when ltp_lite ends, passing or failing, every
\* record has been notified.
C9_NotifiedInOrder ==
    pc \in { "for_result", "passed", "failed" }
        => /\ Len(notified) = idx - 1
           /\ \A k \in 1..Len(notified) :
                /\ notified[k].name = results[k].name
                /\ notified[k].status = results[k].status
                /\ notified[k].information.architecture = results[k].architecture
                /\ notified[k].information.version = results[k].version
                /\ notified[k].information.exit_value = results[k].exit_value
           /\ pc = "for_result" => raised = "none"
           /\ pc \in { "passed", "failed" } => Len(notified) = Len(results)

C9_Witness ==
    /\ pc = "failed"
    /\ Len(results) = 2
    /\ results[1].status = "FAILED"
    /\ results[2].status = "PASSED"
    /\ Len(notified) = 2
    /\ notified[2].name = results[2].name

\* C10: in every call of a sequence of calls, from any node: when the binary
\* is about to be run, no result log and no output log is there, the skip file
\* is there exactly when the call has a skip list, holding that list, nothing
\* has failed, and every removal so far followed a probe that found the file.
C10_CleanBeforeRun ==
    /\ pc = "run"
          => /\ ~ files[LTP_RESULT_PATH].present
             /\ ~ files[LTP_OUTPUT_PATH].present
             /\ files[LTP_SKIP_FILE].present <=> (skip_tests # << >>)
             /\ skip_tests # << >> => files[LTP_SKIP_FILE].data = Join(skip_tests, NL)
             /\ raised = "none"
    /\ \A i \in 1..Len(ops) :
          ops[i].op = "rm"
              => /\ i > 1
                 /\ ops[i - 1].op = "ls"
                 /\ ops[i - 1].path = ops[i].path
                 /\ ops[i - 1].found

C10_Witness ==
    /\ pc = "run"
    /\ clean_node
    /\ skip_tests = << >>
    /\ \E i \in 1..Len(ops) : ops[i].op = "rm" /\ ops[i].path = LTP_RESULT_PATH
    /\ \E i \in 1..Len(ops) : ops[i].op = "rm" /\ ops[i].path = LTP_SKIP_FILE
    /\ \E i \in 1..Len(ops) : ops[i].op = "rm" /\ ops[i].path = LTP_OUTPUT_PATH

============================================================================
